---- MODULE Spec2Model ----
(***************************************************************************)
(* aws-cost-slack: a model of src/main.go.                                 *)
(*                                                                         *)
(* run = getCosts (one GetCostAndUsage call for the current calendar       *)
(* month, parse, sort, prepend Total) followed by postSlack (clean the     *)
(* labels, render the table, one HTTP POST to the webhook).                *)
(* src/unnamed/part_000 is the same pipeline with its configuration        *)
(* decrypted by KMS and a session constructor that returns no error.       *)
(*                                                                         *)
(* Conventions.                                                            *)
(*  - A Go string whose characters matter (service names, amounts, dates,  *)
(*    report text) is a sequence of one-character strings; <<>> is "".     *)
(*  - A Go pointer that may be nil is a sequence of length 0 (nil) or 1.   *)
(*  - A Go error is the sequence of its messages, outermost wrap first;    *)
(*    <<>> is the nil error.                                               *)
(*  - A character a TLA+ string cannot hold is a token such as            *)
(*    "<U+00A0>".                                                          *)
(*  - A float64 is kept bit for bit: NaN, an infinity, or a sign and       *)
(*    mant * 2^exp with a mantissa of at most 53 bits. Parsing, addition,  *)
(*    comparison and printing round as IEEE 754 and Go do (to nearest,     *)
(*    ties to even), on natural numbers of any size.                       *)
(***************************************************************************)
EXTENDS Integers, Sequences, FiniteSets, TLC

VARIABLES
    pc,         \* position of run: "start", "api", "post", "http", "done"
    now,        \* time.Now().In(time.UTC) as <<year, month, day>>
    billing,    \* the ResultsByTime the billing API holds for the month
    apiCalls,   \* the GetCostAndUsageInput of every GetCostAndUsage call issued
    out,        \* the GetCostAndUsageOutput received: <<>> or <<ResultsByTime>>
    details,    \* getCosts' returned list ([]cost); <<>> is also the nil list
    getErr,     \* getCosts' returned error
    httpCalls,  \* the request of every http.Post call issued
    delivered,  \* the requests that reached the webhook
    resp,       \* the HTTP response observed: <<>> or <<status code>>
    postErr,    \* postSlack's returned error
    runErr,     \* run's returned error
    label,      \* label cleaning applied on its own: the current label
    passes,     \* ... and how many times it was cleaned
    window      \* the time window computed on its own: <<>> or <<DateInterval>>

vars == <<pc, now, billing, apiCalls, out, details, getErr, httpCalls, delivered, resp,
          postErr, runErr, label, passes, window>>

(***************************************************************************)
(* Bounds of the model.                                                    *)
(***************************************************************************)
\* Most groups in one GetCostAndUsage response.
MaxGroups == 3
\* Most groups in a response of the runs that exercise the sort.
MaxSortLen == 7
\* Most groups in a response of those runs when amounts of every kind occur.
MaxMixedLen == 3
\* Most groups in a response of the runs that exercise the parsing.
MaxParseLen == 2
\* Years after 2019 that the clock may show.
YearSpan == 1
\* Most fragments a label is built from.
MaxFragments == 3
\* Most times a label is cleaned in a row.
MaxPasses == 2

(***************************************************************************)
(* Characters and numbers.                                                 *)
(***************************************************************************)

Digits == <<"0", "1", "2", "3", "4", "5", "6", "7", "8", "9">>

IsDigit(c) == \E d \in 1..10 : Digits[d] = c

DigitVal(c) == (CHOOSE d \in 1..10 : Digits[d] = c) - 1

\* c, n times.
Repeat(c, n) == [i \in 1..n |-> c]

RECURSIVE NatChars(_)
NatChars(n) ==
    IF n < 10 THEN <<Digits[n + 1]>>
    ELSE Append(NatChars(n \div 10), Digits[(n % 10) + 1])

RECURSIVE DigitsVal(_)
DigitsVal(s) ==
    IF s = <<>> THEN 0
    ELSE 10 * DigitsVal(SubSeq(s, 1, Len(s) - 1)) + DigitVal(s[Len(s)])

ZeroPad(n, w) == Repeat("0", w - Len(NatChars(n))) \o NatChars(n)

(***************************************************************************)
(* Natural numbers of any size: sequences of limbs, least significant      *)
(* first, without leading zero limbs. A float64 mantissa has 53 bits.      *)
(***************************************************************************)
LimbBits == 15
Base == 32768

Max(a, b) == IF a >= b THEN a ELSE b

Min(a, b) == IF a <= b THEN a ELSE b

\* The greatest element of a finite set of integers, 0 for the empty set.
MaxOf(S) == IF S = {} THEN 0 ELSE CHOOSE x \in S : \A y \in S : y <= x

\* The element of a set of one element.
The(S) == CHOOSE x \in S : TRUE

Pow2(n) == IF n <= 0 THEN 1 ELSE 2^n

BNorm(a) == SubSeq(a, 1, MaxOf({ i \in 1..Len(a) : a[i] # 0 }))

\* The number of bits of a: those of the limbs below its highest, and those
\* of its highest limb.
BBitLen(a) ==
    IF a = <<>> THEN 0
    ELSE LimbBits * (Len(a) - 1) + Cardinality({ i \in 0..(LimbBits - 1) : 2^i <= a[Len(a)] })

\* -1, 0 or 1 as a is below, equal to or above b, of equal length, whose
\* highest differing limb is limb top (0 when there is none).
BCmpAt(a, b, top) == IF top = 0 THEN 0 ELSE IF a[top] > b[top] THEN 1 ELSE -1

\* -1, 0 or 1 as a is below, equal to or above b.
BCmp(a, b) ==
    IF Len(a) # Len(b) THEN (IF Len(a) > Len(b) THEN 1 ELSE -1)
    ELSE BCmpAt(a, b, MaxOf({ i \in 1..Len(a) : a[i] # b[i] }))

BLimb(a, i) == IF 1 <= i /\ i <= Len(a) THEN a[i] ELSE 0

\* The number of the limb sums sum[1..n], each below 2 * Base, where src[i]
\* is the nearest limb below i whose sum is not Base - 1 (0 when there is
\* none): limb i receives a carry when that sum is Base or more.
BCarryFrom(sum, src) ==
    BNorm([i \in 1..(Len(sum) + 1) |->
             (BLimb(sum, i) + (IF src[i] # 0 /\ sum[src[i]] >= Base THEN 1 ELSE 0)) % Base])

\* The number of the limb sums sum[1..n], each below 2 * Base.
BCarry(sum) ==
    BCarryFrom(sum, [i \in 1..(Len(sum) + 1) |->
                       MaxOf({ j \in 1..(i - 1) : sum[j] # Base - 1 })])

\* a + b
BAdd(a, b) == BCarry([i \in 1..Max(Len(a), Len(b)) |-> BLimb(a, i) + BLimb(b, i)])

\* a - b, for a >= b, where src[i] is the nearest limb below i in which a
\* and b differ (0 when there is none): limb i lends when a's is the smaller.
BBorrowFrom(a, b, src) ==
    BNorm([i \in 1..Len(a) |->
             (a[i] - BLimb(b, i)
              - (IF src[i] # 0 /\ a[src[i]] < BLimb(b, src[i]) THEN 1 ELSE 0) + Base) % Base])

\* a - b, for a >= b.
BSub(a, b) ==
    BBorrowFrom(a, b, [i \in 1..Len(a) |-> MaxOf({ j \in 1..(i - 1) : a[j] # BLimb(b, j) })])

\* a * k, for k below the base: the low part of limb i's product and the
\* high part of limb i - 1's meet in limb i.
BMulSmall(a, k) ==
    BCarry([i \in 1..(Len(a) + 1) |->
              ((BLimb(a, i) * k) % Base) + ((BLimb(a, i - 1) * k) \div Base)])

\* a * 2^s
BShl(a, s) ==
    LET q == s \div LimbBits
        r == s % LimbBits
    IN  BNorm([i \in 1..(Len(a) + q + 1) |->
                 (BLimb(a, i - q) % Pow2(LimbBits - r)) * Pow2(r)
                 + BLimb(a, i - q - 1) \div Pow2(LimbBits - r)])

\* a \div 2^s
BShr(a, s) ==
    LET q == s \div LimbBits
        r == s % LimbBits
    IN  BNorm([i \in 1..(Len(a) - q) |->
                 BLimb(a, i + q) \div Pow2(r)
                 + (BLimb(a, i + q + 1) % Pow2(r)) * Pow2(LimbBits - r)])

\* Bit i of a, the lowest being bit 0.
BBit(a, i) == (BLimb(a, (i \div LimbBits) + 1) \div Pow2(i % LimbBits)) % 2

\* Whether a % 2^s is not zero.
BLowNonZero(a, s) ==
    \/ \E i \in 1..Min(Len(a), s \div LimbBits) : a[i] # 0
    \/ BLimb(a, (s \div LimbBits) + 1) % Pow2(s % LimbBits) # 0

\* a * (the number of the limbs b[lo..hi]) * Base^(lo - 1)
RECURSIVE BMulRange(_, _, _, _)
BMulRange(a, b, lo, hi) ==
    IF lo > hi THEN <<>>
    ELSE IF lo = hi THEN BShl(BMulSmall(a, b[lo]), LimbBits * (lo - 1))
    ELSE BAdd(BMulRange(a, b, lo, (lo + hi) \div 2),
              BMulRange(a, b, ((lo + hi) \div 2) + 1, hi))

\* a * b
BMul(a, b) == BMulRange(a, b, 1, Len(b))

\* Quotient and remainder of a by d, for a < d * 2^(k + 1): the high bits
\* of the quotient (from bit h up) first, the low bits from what remains.
RECURSIVE BDivBits(_, _, _)
BDivBits(a, d, k) ==
    IF k < 0 THEN [q |-> <<>>, r |-> a]
    ELSE IF k = 0
    THEN (IF BCmp(a, d) >= 0 THEN [q |-> <<1>>, r |-> BSub(a, d)] ELSE [q |-> <<>>, r |-> a])
    ELSE The({ The({ [q |-> BAdd(BShl(hi.q, h), lo.q), r |-> lo.r] :
                     lo \in { BDivBits(hi.r, d, h - 1) } }) :
               h \in { (k + 1) \div 2 }, hi \in { BDivBits(a, BShl(d, (k + 1) \div 2), k - ((k + 1) \div 2)) } })

\* Quotient and remainder of a by d > 0.
BDivMod(a, d) == BDivBits(a, d, BBitLen(a) - BBitLen(d))

\* b^n for b below the base, by squaring.
RECURSIVE BPow(_, _)
BSquare(a) == BMul(a, a)

BPow(b, n) ==
    IF n <= 0 THEN <<1>>
    ELSE IF n % 2 = 1 THEN BMulSmall(BPow(b, n - 1), b)
    ELSE BSquare(BPow(b, n \div 2))

\* The number written in a base by the digits ds[lo..hi] (values below the
\* base), most significant first.
RECURSIVE BFromDigits(_, _, _, _)
BFromDigits(ds, base, lo, hi) ==
    IF lo > hi THEN <<>>
    ELSE IF lo = hi THEN (IF ds[lo] = 0 THEN <<>> ELSE <<ds[lo]>>)
    ELSE BAdd(BMul(BFromDigits(ds, base, lo, (lo + hi) \div 2),
                   BPow(base, hi - ((lo + hi) \div 2))),
              BFromDigits(ds, base, ((lo + hi) \div 2) + 1, hi))

\* The first position of s from i on whose character is not one of chars.
RunEnd(s, i, chars) ==
    Max(i, (Len(s) + 1) - MaxOf({ Len(s) + 1 - j : j \in { k \in i..Len(s) : s[k] \notin chars } }))

\* ds without the zeros it starts with.
StripZeros(ds) == SubSeq(ds, RunEnd(ds, 1, {"0"}), Len(ds))

\* The w decimal digits of a < 10^w, zeros in front: those of the quotient
\* and of the remainder by 10^(w \div 2), one after the other.
RECURSIVE BDecimalPad(_, _)
BDecimalJoin(qr, w) == BDecimalPad(qr.q, w - (w \div 2)) \o BDecimalPad(qr.r, w \div 2)

BDecimalPad(a, w) ==
    IF Len(a) <= 2 THEN ZeroPad(BLimb(a, 1) + BLimb(a, 2) * Base, w)
    ELSE BDecimalJoin(BDivMod(a, BPow(10, w \div 2)), w)

\* The decimal digits of a, none for zero.
BDecimal(a) == StripZeros(BDecimalPad(a, ((BBitLen(a) * 31) \div 100) + 1))

(***************************************************************************)
(* float64: a class, a sign and, for finite values, mant * 2^exp with the  *)
(* mantissa of 53 bits, or of fewer at the least exponent (subnormals);    *)
(* zero is the empty mantissa with exponent 0.                             *)
(***************************************************************************)
MantBits == 53
MinExp == -1074
MaxExp == 971

Zero(neg) == [class |-> "finite", neg |-> neg, mant |-> <<>>, exp |-> 0]

Inf(neg) == [class |-> "inf", neg |-> neg, mant |-> <<>>, exp |-> 0]

NaN == [class |-> "nan", neg |-> FALSE, mant |-> <<>>, exp |-> 0]

\* A rounding's result: the float64 and whether the exact value was beyond
\* the largest float64.
Rounded(neg, mant, exp) ==
    IF exp > MaxExp THEN [val |-> Inf(neg), range |-> TRUE]
    ELSE IF mant = <<>> THEN [val |-> Zero(neg), range |-> FALSE]
    ELSE [val |-> [class |-> "finite", neg |-> neg, mant |-> mant, exp |-> exp],
          range |-> FALSE]

\* m \div 2^sh rounded to nearest, ties to even, where q is m \div 2^sh and
\* a sticky tail counts as bits below the lowest of m.
RoundHalfEven(m, sh, sticky, q) ==
    IF BBit(m, sh - 1) = 1 /\ (sticky \/ BLowNonZero(m, sh - 1) \/ BBit(q, 0) = 1)
    THEN BAdd(q, <<1>>) ELSE q

\* A mantissa that rounding up carried to 2^MantBits is renormalised.
RoundCarry(neg, q, e0) ==
    IF BBitLen(q) > MantBits THEN Rounded(neg, BShr(q, 1), e0 + 1) ELSE Rounded(neg, q, e0)

\* The float64 nearest to (m + t) * 2^e with the exponent e0 of its lowest
\* mantissa bit.
RoundAt(neg, m, e, sticky, e0) ==
    IF e0 <= e THEN Rounded(neg, BShl(m, e - e0), e0)
    ELSE RoundCarry(neg, RoundHalfEven(m, e0 - e, sticky, BShr(m, e0 - e)), e0)

\* The float64 nearest to (m + t) * 2^e, ties to even, where 0 < t < 1 when
\* sticky and t = 0 otherwise; range tells that it is beyond the largest.
RoundFloat(neg, m, e, sticky) ==
    IF m = <<>> THEN [val |-> Zero(neg), range |-> FALSE]
    ELSE RoundAt(neg, m, e, sticky, Max(e + BBitLen(m) - MantBits, MinExp))

\* -1, 0 or 1 as |a| is below, equal to or above |b|, for finite a and b.
MagCmp(a, b) ==
    IF a.mant = <<>> \/ b.mant = <<>>
    THEN (IF a.mant = b.mant THEN 0 ELSE IF a.mant = <<>> THEN -1 ELSE 1)
    ELSE IF a.exp # b.exp THEN (IF a.exp > b.exp THEN 1 ELSE -1)
    ELSE BCmp(a.mant, b.mant)

\* Where a value other than NaN stands: -2 and 2 the infinities, -1 and 1
\* the negative and the positive numbers, 0 the zeros.
FloatKey(v) ==
    IF v.class = "inf" THEN (IF v.neg THEN -2 ELSE 2)
    ELSE IF v.mant = <<>> THEN 0
    ELSE IF v.neg THEN -1 ELSE 1

\* -1, 0 or 1 as a of key ka is below, equal to or above b of key kb.
FloatCmpKeys(a, b, ka, kb) ==
    IF ka # kb THEN (IF ka > kb THEN 1 ELSE -1)
    ELSE IF ka \in {-1, 1} THEN ka * MagCmp(a, b)
    ELSE 0

\* -1, 0 or 1 as a is below, equal to or above b, for a and b other than NaN.
FloatCmp(a, b) == FloatCmpKeys(a, b, FloatKey(a), FloatKey(b))

\* a > b of float64: false when either is NaN.
FloatGt(a, b) == a.class # "nan" /\ b.class # "nan" /\ FloatCmp(a, b) = 1

\* a + b for a = +-x * 2^e and b = +-y * 2^e, neither zero; c compares x
\* with y.
FloatAddAligned(a, b, e, x, y, c) ==
    IF a.neg # b.neg /\ c = 0 THEN Zero(FALSE)
    ELSE RoundFloat(IF a.neg = b.neg \/ c > 0 THEN a.neg ELSE b.neg,
                    IF a.neg = b.neg THEN BAdd(x, y)
                    ELSE IF c > 0 THEN BSub(x, y) ELSE BSub(y, x),
                    e, FALSE).val

FloatAddMags(a, b, e, x, y) == FloatAddAligned(a, b, e, x, y, BCmp(x, y))

FloatAddAt(a, b, e) == FloatAddMags(a, b, e, BShl(a.mant, a.exp - e), BShl(b.mant, b.exp - e))

\* a + b of float64, rounded to nearest, ties to even.
FloatAdd(a, b) ==
    IF a.class = "nan" \/ b.class = "nan" THEN NaN
    ELSE IF a.class = "inf"
         THEN (IF b.class = "inf" /\ a.neg # b.neg THEN NaN ELSE a)
    ELSE IF b.class = "inf" THEN b
    ELSE IF a.mant = <<>> /\ b.mant = <<>> THEN Zero(a.neg /\ b.neg)
    ELSE IF a.mant = <<>> THEN b
    ELSE IF b.mant = <<>> THEN a
    ELSE FloatAddAt(a, b, Min(a.exp, b.exp))

(***************************************************************************)
(* time: time.Date, Time.AddDate, Time.Format("2006-01-02").               *)
(***************************************************************************)
IsLeap(y) == (y % 4 = 0) /\ ((y % 100 # 0) \/ (y % 400 = 0))

DaysIn(y, m) ==
    IF m = 2 THEN (IF IsLeap(y) THEN 29 ELSE 28)
    ELSE IF m \in {4, 6, 9, 11} THEN 30 ELSE 31

RECURSIVE DaysBeforeMonth(_, _)
DaysBeforeMonth(y, m) ==
    IF m <= 1 THEN 0 ELSE DaysBeforeMonth(y, m - 1) + DaysIn(y, m - 1)

\* Days from 0001-01-01 to the first day of year y.
DaysBeforeYear(y) ==
    365 * (y - 1) + ((y - 1) \div 4) - ((y - 1) \div 100) + ((y - 1) \div 400)

\* The calendar date of a day number: what Time.Year/Month/Day compute.
DateOfDay(n) ==
    LET y == CHOOSE yy \in ((n \div 366) + 1)..((n \div 365) + 1) :
                 /\ DaysBeforeYear(yy) <= n
                 /\ n < DaysBeforeYear(yy + 1)
        r == n - DaysBeforeYear(y)
        m == CHOOSE mm \in 1..12 :
                 /\ DaysBeforeMonth(y, mm) <= r
                 /\ r < DaysBeforeMonth(y, mm) + DaysIn(y, mm)
    IN  <<y, m, r - DaysBeforeMonth(y, m) + 1>>

\* time.Date(year, month, day, 0, 0, 0, 0, time.UTC): month and day values
\* outside their usual ranges are normalised.
Date(year, month, day) ==
    LET m0 == month - 1
        y  == year + (IF m0 >= 0 THEN m0 \div 12 ELSE -((11 - m0) \div 12))
        m  == (m0 % 12) + 1
    IN  DateOfDay(DaysBeforeYear(y) + DaysBeforeMonth(y, m) + (day - 1))

\* t.AddDate(years, months, days)
AddDate(t, years, months, days) ==
    Date(t[1] + years, t[2] + months, t[3] + days)

\* t.Format("2006-01-02")
Format(t) == ZeroPad(t[1], 4) \o <<"-">> \o ZeroPad(t[2], 2) \o <<"-">> \o ZeroPad(t[3], 2)

\* startDate of getCosts, with the day of the clock kept: a mutant.
StartDateKeepDay(t) == Date(t[1], t[2], t[3])

\* startDate := time.Date(now.Year(), now.Month(), 1, 0, 0, 0, 0, time.UTC)
StartDate(t) == Date(t[1], t[2], 1)

\* endDate := startDate.AddDate(0, 1, 0)
EndDate(t) == AddDate(StartDate(t), 0, 1, 0)

\* The GetCostAndUsageInput built by getCosts.
CostAndUsageInput(t) ==
    [ TimePeriod  |-> [Start |-> Format(StartDate(t)), End |-> Format(EndDate(t))],
      Metrics     |-> <<"UnblendedCost">>,
      Granularity |-> "MONTHLY",
      GroupBy     |-> <<[Key |-> "SERVICE", Type |-> "DIMENSION"]>> ]

\* Every day the clock may show.
Dates ==
    { <<y, m, d>> \in (2019..(2019 + YearSpan)) \X (1..12) \X (1..31) : d <= DaysIn(y, m) }

(***************************************************************************)
(* strings: strings.NewReplacer(...).Replace, strings.TrimSpace.           *)
(***************************************************************************)
AWS == <<"A", "W", "S">>

Amazon == <<"A", "m", "a", "z", "o", "n">>

\* The (old, new) pairs of strings.NewReplacer("AWS", "", "Amazon", "").
ReplacerPairs == << [old |-> AWS, new |-> <<>>], [old |-> Amazon, new |-> <<>>] >>

HasPrefixAt(s, i, p) ==
    /\ i + Len(p) - 1 <= Len(s)
    /\ \A k \in 1..Len(p) : s[i + k - 1] = p[k]

\* Replacer.Replace: one pass from left to right; at each position the first
\* pair (in argument order) whose old string starts there is replaced and the
\* scan resumes after it, so the output is never scanned again.
RECURSIVE ReplaceFrom(_, _)
ReplaceFrom(s, i) ==
    IF i > Len(s) THEN <<>>
    ELSE LET hits == { k \in 1..Len(ReplacerPairs) : HasPrefixAt(s, i, ReplacerPairs[k].old) }
         IN  IF hits = {} THEN <<s[i]>> \o ReplaceFrom(s, i + 1)
             ELSE LET k == CHOOSE h \in hits : \A g \in hits : h <= g
                  IN  ReplacerPairs[k].new \o ReplaceFrom(s, i + Len(ReplacerPairs[k].old))

Replace(s) == ReplaceFrom(s, 1)

\* The characters of Unicode's White_Space property: tab, line feed,
\* vertical tab, form feed, carriage return, space, next line, no-break
\* space, ogham space mark, en quad to hair space, line separator, paragraph
\* separator, narrow no-break space, medium mathematical space,
\* ideographic space.
WhiteSpace ==
    { "\t", "\n", "<U+000B>", "\f", "\r", " ", "<U+0085>", "<U+00A0>", "<U+1680>",
      "<U+2000>", "<U+2001>", "<U+2002>", "<U+2003>", "<U+2004>", "<U+2005>", "<U+2006>",
      "<U+2007>", "<U+2008>", "<U+2009>", "<U+200A>", "<U+2028>", "<U+2029>", "<U+202F>",
      "<U+205F>", "<U+3000>" }

\* unicode.IsSpace
IsSpace(c) == c \in WhiteSpace

\* s without the white space it starts with.
RECURSIVE TrimLeft(_)
TrimLeft(s) ==
    IF s # <<>> /\ IsSpace(s[1]) THEN TrimLeft(Tail(s)) ELSE s

\* s without the white space it ends with.
RECURSIVE TrimRight(_)
TrimRight(s) ==
    IF s # <<>> /\ IsSpace(s[Len(s)]) THEN TrimRight(SubSeq(s, 1, Len(s) - 1)) ELSE s

\* strings.TrimSpace
TrimSpace(s) == TrimRight(TrimLeft(s))

\* The label trimmed first and the names removed after: a mutant.
CleanKeyTrimFirst(key) == Replace(TrimSpace(key))

\* key := strings.TrimSpace(strings.NewReplacer("AWS", "", "Amazon", "").Replace(detail.key))
CleanKey(key) == TrimSpace(Replace(key))

(***************************************************************************)
(* strconv.ParseFloat(s, 64) and the "%10.3f" of fmt.Sprintf.              *)
(***************************************************************************)
UpperLetters == << "A", "B", "C", "D", "E", "F", "G", "H", "I", "J", "K", "L", "M",
                   "N", "O", "P", "Q", "R", "S", "T", "U", "V", "W", "X", "Y", "Z" >>

LowerLetters == << "a", "b", "c", "d", "e", "f", "g", "h", "i", "j", "k", "l", "m",
                   "n", "o", "p", "q", "r", "s", "t", "u", "v", "w", "x", "y", "z" >>

Lower(c) ==
    IF \E i \in 1..26 : UpperLetters[i] = c
    THEN LowerLetters[CHOOSE i \in 1..26 : UpperLetters[i] = c]
    ELSE c

\* The value of a decimal or hexadecimal digit.
HexVal(c) == IF IsDigit(c) THEN DigitVal(c)
             ELSE 9 + (CHOOSE i \in 1..6 : LowerLetters[i] = Lower(c))

EqualFold(s, t) == Len(s) = Len(t) /\ \A i \in 1..Len(s) : Lower(s[i]) = t[i]

\* s without the sign it may start with.
Unsigned(s) == IF s # <<>> /\ s[1] \in {"+", "-"} THEN Tail(s) ELSE s

\* special: the spellings of the infinities and of NaN, in any case.
special(s) ==
    IF \E w \in { <<"i", "n", "f">>, <<"i", "n", "f", "i", "n", "i", "t", "y">> } :
           EqualFold(Unsigned(s), w)
    THEN [ok |-> TRUE, val |-> Inf(s[1] = "-")]
    ELSE IF EqualFold(s, <<"n", "a", "n">>) THEN [ok |-> TRUE, val |-> NaN]
    ELSE [ok |-> FALSE, val |-> NaN]

\* Whether c is a digit of the base: decimal, or hexadecimal when hex.
IsBaseDigit(c, hex) ==
    IsDigit(c) \/ (hex /\ Lower(c) \in {"a", "b", "c", "d", "e", "f"})

\* Whether every underscore of t separates two digits, or the base prefix
\* from a digit, where the number proper starts at position start.
UnderscoresBetween(t, prefix, hex, start) ==
    \A i \in start..Len(t) :
        t[i] = "_" => /\ IF i = start THEN prefix ELSE IsBaseDigit(t[i - 1], hex)
                      /\ i < Len(t) /\ IsBaseDigit(t[i + 1], hex)

\* t after its sign, with or without a base prefix 0b, 0o or 0x.
UnderscoresPrefixed(t, prefix) ==
    UnderscoresBetween(t, prefix, prefix /\ Lower(t[2]) = "x", IF prefix THEN 3 ELSE 1)

\* underscoreOK: every underscore separates two digits, or the base prefix
\* from a digit.
underscoreOK(s) ==
    UnderscoresPrefixed(Unsigned(s),
                        /\ Len(Unsigned(s)) >= 2
                        /\ Unsigned(s)[1] = "0"
                        /\ Lower(Unsigned(s)[2]) \in {"b", "o", "x"})

HexLetters == { LowerLetters[i] : i \in 1..6 } \cup { UpperLetters[i] : i \in 1..6 }

\* e = e*10 + digit over the digits of the exponent, while e < 10000: the
\* value of the first five digits that follow the leading zeros.
ExpVal(ds) == DigitsVal(SubSeq(StripZeros(ds), 1, Min(5, Len(StripZeros(ds)))))

\* A character of the mantissa that is a digit.
IsMantissaDigit(c) == c \notin {"_", "."}

\* The digits of run that follow its first point.
Fraction(run) ==
    SelectSeq(SubSeq(run, RunEnd(run, 1, { run[k] : k \in 1..Len(run) } \ {"."}) + 1, Len(run)),
              IsMantissaDigit)

\* readFloat's result for the mantissa s[i1..i2-1] and the exponent's
\* digits s[i3..i4-1], whether the exponent's letter stands at i2 or not.
readParsed(s, hex, run, i2, hasExp, i3, i4) ==
    [ok     |-> /\ s # <<>>
                /\ Cardinality({ k \in 1..Len(run) : run[k] = "." }) <= 1
                /\ SelectSeq(run, IsMantissaDigit) # <<>>
                /\ hasExp => (i3 <= Len(s) /\ IsDigit(s[i3]))
                /\ hex => hasExp
                /\ (IF hasExp THEN i4 ELSE i2) = Len(s) + 1
                /\ ((\E k \in 1..Len(run) : run[k] = "_")
                    \/ (hasExp /\ \E k \in i3..(i4 - 1) : s[k] = "_"))
                       => underscoreOK(s),
     neg    |-> s # <<>> /\ s[1] = "-",
     hex    |-> hex,
     digits |-> SelectSeq(run, IsMantissaDigit),
     exp    |-> (IF hasExp
                 THEN ExpVal(SelectSeq(SubSeq(s, i3, i4 - 1), IsDigit))
                      * (IF i2 < Len(s) /\ s[i2 + 1] = "-" THEN -1 ELSE 1)
                 ELSE 0)
                - (IF hex THEN 4 ELSE 1) * Len(Fraction(run))]

\* The exponent: its digits and underscores from i3 on.
readExponent(s, hex, run, i2, hasExp, i3) ==
    readParsed(s, hex, run, i2, hasExp, i3, RunEnd(s, i3, {"_"} \cup { Digits[d] : d \in 1..10 }))

\* The mantissa ends before i2: an exponent's letter there (e for decimal,
\* p for hex), and an optional sign after it.
readMantissa(s, hex, i1, i2) ==
    readExponent(s, hex, SubSeq(s, i1, i2 - 1), i2,
                 i2 <= Len(s) /\ Lower(s[i2]) = (IF hex THEN "p" ELSE "e"),
                 IF i2 < Len(s) /\ s[i2 + 1] \in {"+", "-"} THEN i2 + 2 ELSE i2 + 1)

\* The mantissa starts at i1: digits, points and underscores.
readDigits(s, hex, i1) ==
    readMantissa(s, hex, i1,
                 RunEnd(s, i1, {"_", "."} \cup { Digits[d] : d \in 1..10 }
                                \cup (IF hex THEN HexLetters ELSE {})))

\* The number starts at i0, after the sign: an optional 0x.
readPrefix(s, i0, hex) == readDigits(s, hex, IF hex THEN i0 + 2 ELSE i0)

\* readFloat: sign, optional 0x, digits with at most one point and with
\* underscores, optional exponent (e for decimal, p and mandatory for hex);
\* the whole string must be consumed. digits are the mantissa's digits and
\* exp the power of 10 (decimal) or of 2 (hex) that scales them.
readSigned(s, i0) ==
    readPrefix(s, i0, i0 + 2 <= Len(s) /\ s[i0] = "0" /\ Lower(s[i0 + 1]) = "x")

readFloat(s) == readSigned(s, IF s # <<>> /\ s[1] \in {"+", "-"} THEN 2 ELSE 1)

\* The float64 nearest to n / d, for n and d above zero: a quotient of
\* MantBits + 2 bits or more, its remainder the sticky tail.
FloatOfQuotient(neg, qr, s) == RoundFloat(neg, qr.q, -s, qr.r # <<>>)

FloatOfShifted(neg, n, d, s) == FloatOfQuotient(neg, BDivMod(BShl(n, s), d), s)

FloatOfRatio(neg, n, d) ==
    FloatOfShifted(neg, n, d, Max(0, BBitLen(d) + MantBits + 2 - BBitLen(n)))

\* The float64 nearest to n * 10^exp.
FloatOfDecimal(neg, n, exp) ==
    IF exp >= 0 THEN RoundFloat(neg, BMul(n, BPow(10, exp)), 0, FALSE)
    ELSE FloatOfRatio(neg, n, BPow(10, -exp))

\* The float64 nearest to sig * 10^exp, sig without leading zeros: beyond
\* 310 digits before the point it is out of range, beyond 330 zeros after
\* the point it is zero.
FloatOfDigits(neg, sig, exp) ==
    IF sig = <<>> THEN [val |-> Zero(neg), range |-> FALSE]
    ELSE IF Len(sig) + exp > 310 THEN [val |-> Inf(neg), range |-> TRUE]
    ELSE IF Len(sig) + exp < -330 THEN [val |-> Zero(neg), range |-> FALSE]
    ELSE FloatOfDecimal(neg, BFromDigits([i \in 1..Len(sig) |-> DigitVal(sig[i])],
                                         10, 1, Len(sig)),
                        exp)

\* The float64 nearest to digits * 10^exp.
DecimalToFloat(neg, digits, exp) == FloatOfDigits(neg, StripZeros(digits), exp)

\* The float64 nearest to digits (hexadecimal) * 2^exp.
HexToFloat(neg, digits, exp) ==
    RoundFloat(neg, BFromDigits([i \in 1..Len(digits) |-> HexVal(digits[i])], 16, 1, Len(digits)),
               exp, FALSE)

\* A conversion's result as ParseFloat returns it.
atofResult(r) ==
    IF r.range THEN [ok |-> FALSE, val |-> r.val, err |-> "value out of range"]
    ELSE [ok |-> TRUE, val |-> r.val, err |-> ""]

\* What was read is converted, when it was a number.
atofRead(rd) ==
    IF ~rd.ok THEN [ok |-> FALSE, val |-> Zero(FALSE), err |-> "invalid syntax"]
    ELSE atofResult(IF rd.hex THEN HexToFloat(rd.neg, rd.digits, rd.exp)
                    ELSE DecimalToFloat(rd.neg, rd.digits, rd.exp))

\* An infinity or NaN when spelled so, else the number read.
atofSpecial(s, sp) ==
    IF sp.ok THEN [ok |-> TRUE, val |-> sp.val, err |-> ""] ELSE atofRead(readFloat(s))

\* strconv.ParseFloat(s, 64): ok, the value, and the error's text otherwise.
ParseFloat(s) == atofSpecial(s, special(s))

\* %-40s: left-justified in a field of w characters, never truncated.
PadRight(s, w) == s \o Repeat(" ", w - Len(s))

\* %10s: right-justified in a field of w characters, never truncated.
PadLeft(s, w) == Repeat(" ", w - Len(s)) \o s

\* Fractional digits of the report's amounts ("%10.3f").
Precision == 3

\* ds with a point before its last n digits.
PointBefore(ds, n) ==
    SubSeq(ds, 1, Len(ds) - n) \o <<".">> \o SubSeq(ds, Len(ds) - n + 1, Len(ds))

\* The digits ds of a number of thousandths with the point set before the
\* last Precision of them, zeros in front where ds has too few.
FixedPoint(ds) == PointBefore(Repeat("0", Precision + 1 - Len(ds)) \o ds, Precision)

\* x * 2^e rounded to a whole number, ties to even.
RoundToWhole(x, e) ==
    IF e >= 0 THEN BShl(x, e) ELSE RoundHalfEven(x, -e, FALSE, BShr(x, -e))

\* "%.3f" of a float64: the exact value rounded to Precision decimals, ties
\* to even; the sign also of a negative zero; NaN, +Inf and -Inf as fmt
\* writes them.
FormatAmount(v) ==
    IF v.class = "nan" THEN <<"N", "a", "N">>
    ELSE IF v.class = "inf" THEN <<(IF v.neg THEN "-" ELSE "+"), "I", "n", "f">>
    ELSE (IF v.neg THEN <<"-">> ELSE <<>>)
         \o FixedPoint(BDecimal(RoundToWhole(BMulSmall(v.mant, 10^Precision), v.exp)))

\* fmt.Sprintf("%-40s : %10.3f %s", key, detail.amount, unit)
SprintfLine(key, amount, unit) ==
    PadRight(key, 40) \o <<" ", ":", " ">> \o PadLeft(FormatAmount(amount), 10)
    \o <<" ">> \o unit

\* The loop over details started at the second entry: a mutant.
RECURSIVE TextsSkipFirst(_)
TextsSkipFirst(ds) ==
    IF Len(ds) <= 1 THEN <<>>
    ELSE <<SprintfLine(CleanKey(ds[2].key), ds[2].amount, TrimSpace(ds[2].unit))>>
         \o TextsSkipFirst(Tail(ds))

\* texts: one report line per entry, in order.
RECURSIVE Texts(_)
Texts(ds) ==
    IF ds = <<>> THEN <<>>
    ELSE <<SprintfLine(CleanKey(ds[1].key), ds[1].amount, TrimSpace(ds[1].unit))>>
         \o Texts(Tail(ds))

\* strings.Join(texts, "\n")
RECURSIVE Join(_)
Join(ts) ==
    IF ts = <<>> THEN <<>>
    ELSE IF Len(ts) = 1 THEN ts[1]
    ELSE ts[1] \o <<"\n">> \o Join(Tail(ts))

\* The code fence: three backquotes (U+0060), a character that a TLA+ string
\* cannot hold.
Fence == <<"<backquote>", "<backquote>", "<backquote>">>

\* text := fmt.Sprintf("<fence>\n%s\n<fence>", strings.Join(texts, "\n"))
ReportText(ds) == Fence \o <<"\n">> \o Join(Texts(ds)) \o <<"\n">> \o Fence

\* The value of ACS_CHANNEL.
Channel == "#aws-cost"

\* The request of postSlack; json.Marshal of this map of strings cannot fail
\* and is one-to-one, so the request body is kept as the map.
SlackRequest(channelName, ds) ==
    [ text        |-> "AWS Cost and Usage",
      channelName |-> channelName,
      attachments |-> << [text |-> ReportText(ds)] >> ]

(***************************************************************************)
(* The billing API's answers.                                              *)
(***************************************************************************)
EC2Name == <<"A", "m", "a", "z", "o", "n", " ", "E", "C", "2">>

LambdaName == <<"A", "W", "S", " ", "L", "a", "m", "b", "d", "a">>

S3Name == <<"A", "m", "a", "z", "o", "n", " ", "S", "3">>

TaxName == <<"T", "a", "x">>

USD == <<"U", "S", "D">>

\* A costexplorer.MetricValue; Amount and Unit are *string.
Metric(amount, unit) == [Amount |-> amount, Unit |-> unit]

\* A costexplorer.Group: Keys is []*string, UnblendedCost is the value of
\* Metrics["UnblendedCost"] (nil when the map has no such key).
Group(keys, metric) == [Keys |-> keys, UnblendedCost |-> metric]

\* A group of service name with the amount written as amount, in USD.
Service(name, amount) == Group(<<name>>, <<Metric(<<amount>>, <<USD>>)>>)

\* The groups the API may return: the two services of the end-to-end example,
\* a tie written with an exponent ("3.01E1" = "30.1"), a credit without key or
\* unit and with more digits than the report prints, a group whose amount is
\* spelled "NaN", and three groups whose amount does not parse (no metric, no
\* Amount, "abc").
GroupSet ==
    { Service(EC2Name, <<"1", "2", "0", ".", "4", "5", "6">>),
      Service(LambdaName, <<"3", "0", ".", "1">>),
      Service(TaxName, <<"3", ".", "0", "1", "E", "1">>),
      Group(<<>>, <<Metric(<<<<"-", "2", ".", "0", "0", "0", "4">>>>, <<>>)>>),
      Service(S3Name, <<"N", "a", "N">>),
      Group(<<LambdaName>>, <<>>),
      Group(<<TaxName>>, <<Metric(<<>>, <<USD>>)>>),
      Service(S3Name, <<"a", "b", "c">>) }

\* Every list of at most n groups of S.
RECURSIVE GroupLists(_, _)
GroupLists(S, n) ==
    IF n = 0 THEN { <<>> }
    ELSE GroupLists(S, n - 1)
         \cup { <<g>> \o l : g \in S, l \in { x \in GroupLists(S, n - 1) : Len(x) = n - 1 } }

\* The lists of groups L as out.ResultsByTime: no result, one result, or the
\* groups spread over two.
ResultsOf(L) ==
    { <<>> }
    \cup { <<[Groups |-> l]>> : l \in L }
    \cup { <<[Groups |-> SubSeq(p[1], 1, p[2])], [Groups |-> SubSeq(p[1], p[2] + 1, Len(p[1]))]>> :
             p \in { q \in L \X (0..MaxGroups) : q[2] <= Len(q[1]) } }

\* The groups of the runs that exercise the sort on long answers: two
\* different groups of equal amount and one of a larger amount.
SortGroupSet ==
    { Service(EC2Name, <<"1", "2", "0", ".", "4", "5", "6">>),
      Service(LambdaName, <<"3", "0", ".", "1">>),
      Service(TaxName, <<"3", "0", ".", "1", "0">>) }

\* The groups of the runs that exercise the sort on short answers: those of
\* SortGroupSet, a smaller amount, a negative zero next to a zero, an
\* infinity, and NaN, which no comparison orders.
MixedGroupSet ==
    SortGroupSet
    \cup { Service(S3Name, <<"N", "a", "N">>),
           Service(S3Name, <<"2", ".", "5">>),
           Service(TaxName, <<"-", "0">>),
           Service(LambdaName, <<"0">>),
           Service(EC2Name, <<"+", "I", "n", "f">>) }

\* The amount strings of the runs that exercise the parsing: decimal and
\* hexadecimal numerals with and without exponent, sign, point and
\* underscores, the spellings of the infinities and of NaN, a numeral too
\* large for a float64, and strings that are no numeral.
ParseAmountSet ==
    { <<"1", "2", "0", ".", "4", "5", "6">>, <<"1", "e", "3">>, <<"0", "x", "1", "p", "-", "2">>, <<"1", "_", "0">>, <<"-", "0">>, <<".", "5">>, <<"1", ".">>, <<"+", "1", "E", "-", "2">>,
      <<"0", "X", "_", "1", ".", "8", "P", "+", "1">>, <<"N", "a", "N">>, <<"n", "a", "n">>, <<"I", "n", "f">>, <<"+", "I", "n", "f">>, <<"-", "I", "n", "f", "i", "n", "i", "t", "y">>,
      <<"1", "e", "4", "0", "0">>, <<"-", "1", "e", "4", "0", "0">>,
      <<>>, <<"a", "b", "c">>, <<".">>, <<"1", ".", "2", ".", "3">>, <<"1", "_", "_", "0">>, <<"_", "1">>, <<"1", "_">>, <<"0", "x", "1">>, <<"0", "x">>, <<"1", "e">>,
      <<"1", "e", "+">>, <<"e", "5">>, <<"$", "5">>, <<" ", "1">>, <<"1", " ">>, <<"1", ",", "5">>, <<"+">>, <<"-", "-", "1">>, <<"+", "n", "a", "n">>,
      <<"i", "n", "f", "i", "n", "i", "t">>, <<"1", "p", "3">>, <<"0", "x", "1", "e", "3">>, <<"1", "e", "1", "_", "0">>, <<"1", "e", "_", "1">> }

\* The status codes the webhook may answer with.
StatusCodes == { 200, 204, 404, 500 }

\* resp.Status
Status(code) ==
    CASE code = 200 -> "200 OK"
      [] code = 204 -> "204 No Content"
      [] code = 404 -> "404 Not Found"
      [] OTHER      -> "500 Internal Server Error"

(***************************************************************************)
(* getCosts                                                                *)
(***************************************************************************)
\* errors.Wrap(err, message)
Wrap(err, message) == <<message>> \o err

\* The nested loops over out.ResultsByTime and result.Groups visit the groups
\* of all results in order.
RECURSIVE Flatten(_)
Flatten(rbt) ==
    IF rbt = <<>> THEN <<>> ELSE rbt[1].Groups \o Flatten(Tail(rbt))

\* The key of a group with the provider names already stripped: a mutant.
GroupKeyCleaned(g) == IF Len(g.Keys) >= 1 THEN CleanKey(g.Keys[1]) ELSE <<>>

\* key := ""; if len(group.Keys) >= 1 { key = *group.Keys[0] }
GroupKey(g) == IF Len(g.Keys) >= 1 THEN g.Keys[1] ELSE <<>>

\* amount := ""; set from metric.Amount when neither pointer is nil
GroupAmount(g) ==
    IF Len(g.UnblendedCost) = 0 THEN <<>>
    ELSE IF Len(g.UnblendedCost[1].Amount) = 0 THEN <<>>
    ELSE g.UnblendedCost[1].Amount[1]

\* unit := ""; set from metric.Unit when neither pointer is nil
GroupUnit(g) ==
    IF Len(g.UnblendedCost) = 0 THEN <<>>
    ELSE IF Len(g.UnblendedCost[1].Unit) = 0 THEN <<>>
    ELSE g.UnblendedCost[1].Unit[1]

\* strconv.ParseFloat of every amount string the API of the model sends,
\* converted once.
ParsedAmounts ==
    [s \in ParseAmountSet \cup { GroupAmount(g) : g \in GroupSet \cup MixedGroupSet } |->
        ParseFloat(s)]

\* amountVal, err := strconv.ParseFloat(amount, 64), read from ParsedAmounts
\* for the strings it holds.
ParseAmount(s) == IF s \in DOMAIN ParsedAmounts THEN ParsedAmounts[s] ELSE ParseFloat(s)

\* return nil, errors.Wrap(err, "failed to parse amount"); err is a
\* *strconv.NumError, whose text names the function, the input (here as the
\* sequence of its characters) and the cause.
ParseFailure(amount, parseErr) ==
    [costs |-> <<>>,
     err   |-> Wrap(<<"strconv.ParseFloat: parsing " \o ToString(amount) \o ": " \o parseErr>>,
                    "failed to parse amount")]

RECURSIVE ParseGroups(_, _)
\* The end of the loop body for the first of groups, whose amount parsed as r:
\* return at a failure, else append cost{key, amountVal, unit} and go on.
ParseNext(groups, costs, r) ==
    IF ~r.ok THEN ParseFailure(GroupAmount(groups[1]), r.err)
    ELSE ParseGroups(Tail(groups),
                     Append(costs, [key    |-> GroupKey(groups[1]),
                                    amount |-> r.val,
                                    unit   |-> GroupUnit(groups[1])]))

\* The loop body, group by group: parse the amount, return at the first
\* failure, else append the entry.
ParseGroups(groups, costs) ==
    IF groups = <<>> THEN [costs |-> costs, err |-> <<>>]
    ELSE ParseNext(groups, costs, ParseAmount(GroupAmount(groups[1])))

\* The less function with >= for >: a mutant.
LessOrEqual(a, b) ==
    a.amount.class # "nan" /\ b.amount.class # "nan" /\ FloatCmp(a.amount, b.amount) >= 0

\* func(i, j int) bool { return costs[i].amount > costs[j].amount }
Less(a, b) == FloatGt(a.amount, b.amount)

\* data.Swap(i, j)
Swap(s, i, j) == [s EXCEPT ![i] = s[j], ![j] = s[i]]

\* for j := i; j > a && data.Less(j, j-1); j-- { data.Swap(j, j-1) }
RECURSIVE SiftDown(_, _)
SiftDown(s, j) ==
    IF j > 1 /\ Less(s[j], s[j - 1]) THEN SiftDown(Swap(s, j, j - 1), j - 1) ELSE s

\* The insertion sort of package sort, from element i on.
RECURSIVE InsertionSortFrom(_, _)
InsertionSortFrom(s, i) ==
    IF i > Len(s) THEN s ELSE InsertionSortFrom(SiftDown(s, i), i + 1)

InsertionSort(s) == InsertionSortFrom(s, 2)

\* for i := a + 6; i < b; i++ { if data.Less(i, i-6) { data.Swap(i, i-6) } }:
\* the pass with gap 6 that package sort runs before its insertion sort up
\* to Go 1.18 (element i here is element i-1 there).
RECURSIVE GapPassFrom(_, _)
GapPassFrom(s, i) ==
    IF i > Len(s) THEN s
    ELSE GapPassFrom(IF Less(s[i], s[i - 6]) THEN Swap(s, i, i - 6) ELSE s, i + 1)

\* sort.Slice(costs, less) on a slice of at most 12 elements. sort.Slice is
\* documented as not stable, and what it does with elements that less does not
\* order depends on the toolchain: up to Go 1.18 (the workflow builds with
\* 1.14.2) a pass with gap 6 and then an insertion sort, from Go 1.19 on the
\* insertion sort alone. Both outcomes are possible results.
SortOutcomes(costs) ==
    { InsertionSort(GapPassFrom(costs, 7)), InsertionSort(costs) }

\* total := float64(0); for _, c := range costs { total += c.amount }: the
\* amounts added to +0 one by one, in the order of the slice.
RECURSIVE SumAmounts(_)
SumAmounts(costs) ==
    IF costs = <<>> THEN Zero(FALSE)
    ELSE FloatAdd(SumAmounts(SubSeq(costs, 1, Len(costs) - 1)), costs[Len(costs)].amount)

\* cost{key: "Total", amount: total, unit: "*"}
TotalEntry(total) ==
    [key |-> <<"T", "o", "t", "a", "l">>, amount |-> total, unit |-> <<"*">>]

\* The rest of getCosts after its loop returned parsed: the error, or the
\* sorted slice with its total in front.
GetCostsAfterLoop(parsed) ==
    IF parsed.err # <<>>
    THEN { [details |-> parsed.costs, err |-> parsed.err] }
    ELSE { [details |-> <<TotalEntry(SumAmounts(t))>> \o t, err |-> <<>>] :
             t \in SortOutcomes(parsed.costs) }

\* What getCosts may return for an API answer: [details, err].
GetCostsReturns(rbt) == GetCostsAfterLoop(ParseGroups(Flatten(rbt), <<>>))

(***************************************************************************)
(* run                                                                     *)
(***************************************************************************)
\* run going on to postSlack whatever getCosts returned: a mutant.
GetCostsFailedIgnored(err) == FALSE

\* if err != nil { return errors.Wrap(err, "failed to get cost") }
GetCostsFailed(err) == err # <<>>

\* run's state after getCosts returned [details, err].
AfterGetCosts(r) ==
    /\ details' = r.details
    /\ getErr' = r.err
    /\ IF GetCostsFailed(r.err)
       THEN pc' = "done" /\ runErr' = Wrap(r.err, "failed to get cost")
       ELSE pc' = "post" /\ runErr' = <<>>

\* A status check that lets every 2xx pass: a mutant.
StatusOKAny2xx(code) == code \in 200..299

\* resp.StatusCode != http.StatusOK, negated
StatusOK(code) == code = 200

\* run's state after postSlack returned err.
AfterPostSlack(err) ==
    /\ postErr' = err
    /\ runErr' = IF err # <<>> THEN Wrap(err, "failed to send cost into slack") ELSE <<>>
    /\ pc' = "done"

\* session.NewSession() fails: getCosts returns before any call.
NewSessionError ==
    /\ pc = "start"
    /\ AfterGetCosts([details |-> <<>>,
                      err |-> Wrap(<<"NoCredentialProviders">>, "failed to create new AWS session")])
    /\ UNCHANGED <<now, billing, apiCalls, out, httpCalls, delivered, resp, postErr, label, passes, window>>

\* costExplorer.GetCostAndUsage(&in) is called with the window of the month.
GetCostAndUsageCall ==
    /\ pc = "start"
    /\ apiCalls' = Append(apiCalls, CostAndUsageInput(now))
    /\ pc' = "api"
    /\ UNCHANGED <<now, billing, out, details, getErr, httpCalls, delivered, resp, postErr, runErr,
                   label, passes, window>>

\* GetCostAndUsage returns an error.
GetCostAndUsageError ==
    /\ pc = "api"
    /\ \E e \in { "ThrottlingException", "AccessDeniedException" } :
         AfterGetCosts([details |-> <<>>, err |-> Wrap(<<e>>, "failed to get cost and usage")])
    /\ UNCHANGED <<now, billing, apiCalls, out, httpCalls, delivered, resp, postErr, label, passes, window>>

\* GetCostAndUsage returns out; getCosts parses, sorts, totals and returns.
GetCostAndUsageReturn ==
    /\ pc = "api"
    /\ out' = <<billing>>
    /\ \E r \in GetCostsReturns(billing) : AfterGetCosts(r)
    /\ UNCHANGED <<now, billing, apiCalls, httpCalls, delivered, resp, postErr, label, passes, window>>

\* postSlack renders the report and calls http.Post.
PostSlackSend ==
    /\ pc = "post"
    /\ httpCalls' = Append(httpCalls, SlackRequest(Channel, details))
    /\ pc' = "http"
    /\ UNCHANGED <<now, billing, apiCalls, out, details, getErr, delivered, resp, postErr, runErr,
                   label, passes, window>>

\* http.Post returns an error; the request may or may not have arrived.
PostTransportError ==
    /\ pc = "http"
    /\ \E arrived \in BOOLEAN :
         delivered' = IF arrived THEN Append(delivered, httpCalls[Len(httpCalls)]) ELSE delivered
    /\ AfterPostSlack(Wrap(<<"Post: EOF">>, "failed to send request"))
    /\ UNCHANGED <<now, billing, apiCalls, out, details, getErr, httpCalls, resp, label, passes, window>>

\* http.Post returns a response whose body cannot be read to its end.
PostReadBodyError ==
    /\ pc = "http"
    /\ \E code \in StatusCodes : resp' = <<[StatusCode |-> code, bodyRead |-> FALSE]>>
    /\ delivered' = Append(delivered, httpCalls[Len(httpCalls)])
    /\ AfterPostSlack(Wrap(<<"unexpected EOF">>, "failed to read response body"))
    /\ UNCHANGED <<now, billing, apiCalls, out, details, getErr, httpCalls, label, passes, window>>

\* http.Post returns a response, its body is read, its status decides.
PostResponse ==
    /\ pc = "http"
    /\ \E code \in StatusCodes :
         /\ resp' = <<[StatusCode |-> code, bodyRead |-> TRUE]>>
         /\ AfterPostSlack(IF StatusOK(code) THEN <<>>
                           ELSE <<"invalid status " \o Status(code)>>)
    /\ delivered' = Append(delivered, httpCalls[Len(httpCalls)])
    /\ UNCHANGED <<now, billing, apiCalls, out, details, getErr, httpCalls, label, passes, window>>

Init ==
    /\ pc = "start"
    /\ now \in { <<2020, 2, 29>>, <<2020, 12, 31>> }
    /\ billing \in ResultsOf(GroupLists(GroupSet, MaxGroups))
    /\ apiCalls = <<>>
    /\ out = <<>>
    /\ details = <<>>
    /\ getErr = <<>>
    /\ httpCalls = <<>>
    /\ delivered = <<>>
    /\ resp = <<>>
    /\ postErr = <<>>
    /\ runErr = <<>>
    /\ label = <<>>
    /\ passes = <<>>
    /\ window = <<>>

Next ==
    \/ NewSessionError
    \/ GetCostAndUsageCall
    \/ GetCostAndUsageError
    \/ GetCostAndUsageReturn
    \/ PostSlackSend
    \/ PostResponse
    \/ PostReadBodyError
    \/ PostTransportError

Spec == Init /\ [][Next]_vars

\* The run on one result of at most MaxSortLen groups of SortGroupSet, long
\* enough for package sort's pass with gap 6, or of at most MaxMixedLen groups
\* of MixedGroupSet.
InitSort ==
    /\ pc = "start"
    /\ now = <<2020, 12, 31>>
    /\ billing \in { <<[Groups |-> l]>> : l \in GroupLists(SortGroupSet, MaxSortLen)
                                                   \cup GroupLists(MixedGroupSet, MaxMixedLen) }
    /\ apiCalls = <<>>
    /\ out = <<>>
    /\ details = <<>>
    /\ getErr = <<>>
    /\ httpCalls = <<>>
    /\ delivered = <<>>
    /\ resp = <<>>
    /\ postErr = <<>>
    /\ runErr = <<>>
    /\ label = <<>>
    /\ passes = <<>>
    /\ window = <<>>

SpecSort == InitSort /\ [][Next]_vars

\* The run on one result of at most MaxParseLen groups with amounts of every
\* spelling.
InitParse ==
    /\ pc = "start"
    /\ now = <<2020, 2, 29>>
    /\ billing \in { <<[Groups |-> l]>> :
                       l \in GroupLists({ Service(S3Name, s) : s \in ParseAmountSet },
                                        MaxParseLen) }
    /\ apiCalls = <<>>
    /\ out = <<>>
    /\ details = <<>>
    /\ getErr = <<>>
    /\ httpCalls = <<>>
    /\ delivered = <<>>
    /\ resp = <<>>
    /\ postErr = <<>>
    /\ runErr = <<>>
    /\ label = <<>>
    /\ passes = <<>>
    /\ window = <<>>

SpecParse == InitParse /\ [][Next]_vars

(***************************************************************************)
(* Label cleaning on its own: a label is drawn, then cleaned repeatedly.   *)
(***************************************************************************)
\* The pieces labels are built from: the two provider names, pieces that
\* join into one once a name between them is removed, a space, a form feed,
\* a no-break space, a service.
Fragments ==
    { AWS, Amazon, <<"A">>, <<"W", "S">>, <<"A", "m", "a">>, <<"z", "o", "n">>,
      <<" ">>, <<"\f">>, <<"<U+00A0>">>, <<"E", "C", "2">> }

\* Every concatenation of at most n fragments.
RECURSIVE LabelsOf(_)
LabelsOf(n) ==
    IF n = 0 THEN { <<>> }
    ELSE LabelsOf(n - 1) \cup { f \o l : f \in Fragments, l \in LabelsOf(n - 1) }

InitClean ==
    /\ pc = "start"
    /\ now = <<2020, 2, 29>>
    /\ billing = <<>>
    /\ apiCalls = <<>>
    /\ out = <<>>
    /\ details = <<>>
    /\ getErr = <<>>
    /\ httpCalls = <<>>
    /\ delivered = <<>>
    /\ resp = <<>>
    /\ postErr = <<>>
    /\ runErr = <<>>
    /\ label \in LabelsOf(MaxFragments)
    /\ passes = <<>>
    /\ window = <<>>

\* The label, or the result of the last cleaning, is cleaned (again).
CleanLabel ==
    /\ Len(passes) < MaxPasses
    /\ passes' = Append(passes, CleanKey(IF passes = <<>> THEN label ELSE passes[Len(passes)]))
    /\ UNCHANGED <<pc, now, billing, apiCalls, out, details, getErr, httpCalls, delivered, resp,
                   postErr, runErr, label, window>>

SpecClean == InitClean /\ [][CleanLabel]_vars

(***************************************************************************)
(* The time window on its own: a day is drawn, the window is computed.     *)
(***************************************************************************)
InitWindow ==
    /\ pc = "start"
    /\ now \in Dates
    /\ billing = <<>>
    /\ apiCalls = <<>>
    /\ out = <<>>
    /\ details = <<>>
    /\ getErr = <<>>
    /\ httpCalls = <<>>
    /\ delivered = <<>>
    /\ resp = <<>>
    /\ postErr = <<>>
    /\ runErr = <<>>
    /\ label = <<>>
    /\ passes = <<>>
    /\ window = <<>>

\* getCosts builds its input from the clock.
TimeWindow ==
    /\ window = <<>>
    /\ window' = <<CostAndUsageInput(now).TimePeriod>>
    /\ UNCHANGED <<pc, now, billing, apiCalls, out, details, getErr, httpCalls, delivered, resp,
                   postErr, runErr, label, passes>>

SpecWindow == InitWindow /\ [][TimeWindow]_vars

(***************************************************************************)
(* Properties. The helpers below restate what is expected from the API's   *)
(* answer itself, without the operators of getCosts and postSlack.         *)
(***************************************************************************)
\* p occurs in s.
Contains(s, p) == \E i \in 1..Len(s) : HasPrefixAt(s, i, p)

\* getCosts received an answer and returned without error.
Fetched == out # <<>> /\ getErr = <<>>

\* The groups of the answer, in the order the API returned them.
ApiGroups == IF out = <<>> THEN <<>> ELSE Flatten(out[1])

\* The amount string of a group as the API sent it ("" when absent).
RawAmount(g) ==
    IF g.UnblendedCost = <<>> \/ g.UnblendedCost[1].Amount = <<>> THEN <<>>
    ELSE g.UnblendedCost[1].Amount[1]

\* The entry a group stands for: its key and unit as sent, its amount parsed.
RawEntry(g) ==
    [key    |-> IF g.Keys = <<>> THEN <<>> ELSE g.Keys[1],
     amount |-> ParseAmount(RawAmount(g)).val,
     unit   |-> IF g.UnblendedCost = <<>> \/ g.UnblendedCost[1].Unit = <<>> THEN <<>>
                ELSE g.UnblendedCost[1].Unit[1]]

\* The entries of the answer, in the order the API returned them.
ApiEntries == [i \in 1..Len(ApiGroups) |-> RawEntry(ApiGroups[i])]

\* How often x occurs in seq.
CountIn(seq, x) == Cardinality({ i \in 1..Len(seq) : seq[i] = x })

\* The float64 sum of the amounts of seq[a..b], from left to right.
RECURSIVE SumOver(_, _, _)
SumOver(seq, a, b) ==
    IF b < a THEN Zero(FALSE) ELSE FloatAdd(SumOver(seq, a, b - 1), seq[b].amount)

\* a >= b and a == b of float64: false when either is NaN.
FloatGe(a, b) == a.class # "nan" /\ b.class # "nan" /\ FloatCmp(a, b) >= 0

FloatEq(a, b) == a.class # "nan" /\ b.class # "nan" /\ FloatCmp(a, b) = 0

\* A finite float64 of the given sign, mantissa (limbs) and exponent.
Float64(neg, mant, exp) == [class |-> "finite", neg |-> neg, mant |-> mant, exp |-> exp]

\* The decimal digits.
DigitChars == { Digits[d] : d \in 1..10 }

\* The positions of s that hold a character of C.
Positions(s, C) == { i \in 1..Len(s) : s[i] \in C }

\* m is a mantissa in the digits D: digits, at most one point, at least one
\* digit, every underscore between two digits (or in front, after a base
\* prefix).
IsMantissa(m, D, afterPrefix) ==
    /\ \A i \in 1..Len(m) : m[i] \in D \cup {".", "_"}
    /\ Cardinality(Positions(m, {"."})) <= 1
    /\ Positions(m, D) # {}
    /\ \A i \in Positions(m, {"_"}) :
           /\ IF i = 1 THEN afterPrefix ELSE m[i - 1] \in D
           /\ i < Len(m) /\ m[i + 1] \in D

\* e is what follows the letter of an exponent: an optional sign, then
\* decimal digits, every underscore between two of them.
IsExponent(e) ==
    LET d == IF e # <<>> /\ e[1] \in {"+", "-"} THEN Tail(e) ELSE e
    IN  /\ d # <<>>
        /\ \A i \in 1..Len(d) : d[i] \in DigitChars \cup {"_"}
        /\ \A i \in Positions(d, {"_"}) :
               i > 1 /\ d[i - 1] \in DigitChars /\ i < Len(d) /\ d[i + 1] \in DigitChars

\* body is a numeral whose exponent is introduced by a letter of E and
\* is mandatory or not.
IsNumeral(body, D, E, hex) ==
    LET marks == Positions(body, E)
        stop  == IF marks = {} THEN Len(body) + 1
                 ELSE CHOOSE i \in marks : \A j \in marks : i <= j
    IN  /\ IsMantissa(SubSeq(body, 1, stop - 1), D, hex)
        /\ IF marks = {} THEN ~hex ELSE IsExponent(SubSeq(body, stop + 1, Len(body)))

\* s is numeric: it writes a number as a floating-point literal does, in
\* decimal (digits with an optional point and an optional exponent e) or in
\* hexadecimal (0x, hexadecimal digits with an optional point, an exponent
\* p), with an optional sign in front. The spellings of the infinities and
\* of NaN write no number.
Numeric(s) ==
    LET t == IF s # <<>> /\ s[1] \in {"+", "-"} THEN Tail(s) ELSE s
    IN  IF Len(t) >= 3 /\ t[1] = "0" /\ t[2] \in {"x", "X"}
        THEN IsNumeral(SubSeq(t, 3, Len(t)), DigitChars \cup HexLetters, {"p", "P"}, TRUE)
        ELSE IsNumeral(t, DigitChars, {"e", "E"}, FALSE)

\* s is not numeric.
NonNumeric(s) == ~Numeric(s)

\* No group of the answer has an amount spelled as an infinity or as NaN.
NoneSpecial == \A k \in 1..Len(ApiGroups) : ~special(RawAmount(ApiGroups[k])).ok

\* text split at its newlines.
RECURSIVE SplitLines(_)
SplitLines(text) ==
    LET breaks == { i \in 1..Len(text) : text[i] = "\n" }
    IN  IF breaks = {} THEN <<text>>
        ELSE LET b == CHOOSE i \in breaks : \A j \in breaks : i <= j
             IN  <<SubSeq(text, 1, b - 1)>> \o SplitLines(SubSeq(text, b + 1, Len(text)))

\* The report lines of a request: its attachment's text without the fences.
ReportLines(req) ==
    LET ls == SplitLines(req.attachments[1].text)
    IN  SubSeq(ls, 2, Len(ls) - 1)

\* req carries one line for Total and one for every group of the answer,
\* between two fences.
FullReport(req) ==
    LET ls == SplitLines(req.attachments[1].text)
    IN  /\ Len(ls) = Len(ApiGroups) + 3
        /\ ls[1] = Fence /\ ls[Len(ls)] = Fence
        /\ \A i \in 2..(Len(ls) - 1) : Len(ls[i]) >= 54
        /\ SubSeq(ls[2], 1, 5) = <<"T", "o", "t", "a", "l">>

\* The number written in s from position a to position b.
NumAt(s, a, b) == DigitsVal(SubSeq(s, a, b))

\* s has the shape YYYY-MM-DD.
IsoShape(s) ==
    /\ Len(s) = 10
    /\ s[5] = "-" /\ s[8] = "-"
    /\ \A i \in {1, 2, 3, 4, 6, 7, 9, 10} : IsDigit(s[i])

\* C1: whenever getCosts succeeds (the empty answer included), the first entry
\* of the returned list is {key "Total", unit "*"} and its amount equals the
\* sum of the amounts of all the other entries: the float64 they add up to
\* in the order of the list, zero for the empty answer.
C1_TotalFirst ==
    Fetched =>
        /\ Len(details) >= 1
        /\ details[1].key = <<"T", "o", "t", "a", "l">>
        /\ details[1].unit = <<"*">>
        /\ FloatEq(details[1].amount, SumOver(details, 2, Len(details)))

\* The statement of C1 on the answers without an amount spelled as an infinity
\* or as NaN.
TotalFirstOfNumbers == NoneSpecial => C1_TotalFirst

\* C2: whenever getCosts succeeds, the entries after Total are in descending
\* order of amount (amount[i] >= amount[j] for all positions 1 <= i < j) and
\* are a permutation of the groups the API returned.
C2_SortedPermutation ==
    Fetched =>
        \A es \in { ApiEntries } :
            /\ \A i, j \in 2..Len(details) :
                   i < j => FloatGe(details[i].amount, details[j].amount)
            /\ Len(details) = 1 + Len(es)
            /\ \A k \in 1..Len(es) : CountIn(Tail(details), es[k]) = CountIn(es, es[k])

\* The statement of C2 on the answers without an amount spelled as an infinity
\* or as NaN.
SortedPermutationOfNumbers == NoneSpecial => C2_SortedPermutation

\* C3: if the amount string of any returned group is not numeric (the empty
\* string of an absent metric or Amount included), getCosts returns a parse
\* error and the nil list, wherever the group stands.
C3_ParseErrorNoPartialList ==
    (out # <<>> /\ \E k \in 1..Len(ApiGroups) : NonNumeric(RawAmount(ApiGroups[k]))) =>
        /\ Len(getErr) = 2
        /\ getErr[1] = "failed to parse amount"
        /\ details = <<>>
        /\ pc = "done"

\* The statement of C3 on the answers without an amount spelled as an infinity
\* or as NaN.
ParseErrorOfNumbers == NoneSpecial => C3_ParseErrorNoPartialList

\* C4, as claimed: when the webhook's response has a status other than 200,
\* postSlack returns an error that names the status, and that call issued
\* exactly one POST.
C4_InvalidStatusNoRetry ==
    \A i \in 1..Len(resp) :
        resp[i].StatusCode # 200 =>
            /\ pc = "done"
            /\ postErr = <<"invalid status " \o Status(resp[i].StatusCode)>>
            /\ Len(httpCalls) = 1

\* C4, amended: when the webhook's response has a status other than 200 and
\* its body was read, postSlack returns the error "invalid status <status>";
\* when its body could not be read, postSlack returns "failed to read
\* response body" and the status is not named. Either way that call issued
\* exactly one POST and run ends with the error.
C4_Amended ==
    \A i \in 1..Len(resp) :
        resp[i].StatusCode # 200 =>
            /\ pc = "done"
            /\ resp[i].bodyRead =>
                   postErr = <<"invalid status " \o Status(resp[i].StatusCode)>>
            /\ (resp[i].bodyRead /\ resp[i].StatusCode = 500) =>
                   postErr = <<"invalid status 500 Internal Server Error">>
            /\ (resp[i].bodyRead /\ resp[i].StatusCode = 204) =>
                   postErr = <<"invalid status 204 No Content">>
            /\ ~resp[i].bodyRead =>
                   postErr = <<"failed to read response body", "unexpected EOF">>
            /\ runErr = <<"failed to send cost into slack">> \o postErr
            /\ Len(httpCalls) = 1

C4_Witness ==
    /\ pc = "done"
    /\ resp = <<[StatusCode |-> 500, bodyRead |-> TRUE]>>
    /\ postErr = <<"invalid status 500 Internal Server Error">>
    /\ Len(httpCalls) = 1
    /\ Len(delivered) = 1

\* C5, as claimed: a finished run either delivered the full report and
\* returned nil, or delivered nothing and returned an error.
C5_NoPartialSuccess ==
    pc = "done" =>
        \/ runErr = <<>> /\ Len(delivered) = 1 /\ FullReport(delivered[1])
        \/ runErr # <<>> /\ delivered = <<>>

\* C5, amended: at most one POST is issued and it carries the full report; run
\* returns nil only if that request was delivered and answered with status
\* 200; when getCosts fails nothing is sent and run returns an error.
C5_Amended ==
    /\ Len(httpCalls) <= 1
    /\ \A i \in 1..Len(httpCalls) : FullReport(httpCalls[i])
    /\ delivered \in { <<>>, httpCalls }
    /\ (pc = "done" /\ runErr = <<>>) =>
           /\ Len(delivered) = 1
           /\ resp = <<[StatusCode |-> 200, bodyRead |-> TRUE]>>
    /\ getErr # <<>> => (httpCalls = <<>> /\ delivered = <<>> /\ runErr # <<>>)

C5_Witness ==
    /\ pc = "done"
    /\ runErr # <<>>
    /\ Len(delivered) = 1
    /\ Len(ApiGroups) = 2
    /\ FullReport(delivered[1])

\* C6, as claimed: cleaning a cleaned label gives the same label.
C6_Idempotent == Len(passes) >= 2 => passes[2] = passes[1]

\* C6, amended: cleaning a cleaned label gives the same label whenever the
\* cleaned label holds neither "AWS" nor "Amazon", that is, whenever no removal
\* joined its neighbours into a provider name.
C6_Amended ==
    (Len(passes) >= 2 /\ ~Contains(passes[1], AWS) /\ ~Contains(passes[1], Amazon)) =>
        passes[2] = passes[1]

C6_Witness ==
    /\ Len(passes) = 2
    /\ Contains(label, AWS)
    /\ passes[1] # <<>>
    /\ ~Contains(passes[1], AWS) /\ ~Contains(passes[1], Amazon)
    /\ passes[2] = passes[1]

\* C7, as claimed: every entry getCosts returns has a key without "AWS" and
\* "Amazon" and without surrounding whitespace.
C7_StrippedAtFetch ==
    Fetched =>
        \A i \in 1..Len(details) :
            LET key == details[i].key
            IN  /\ ~Contains(key, AWS) /\ ~Contains(key, Amazon)
                /\ key = <<>> \/ (~IsSpace(key[1]) /\ ~IsSpace(key[Len(key)]))

\* The answer of the end-to-end example.
ExampleAnswer ==
    << [Groups |->
          << Group(<<EC2Name>>, <<Metric(<< <<"1", "2", "0", ".", "4", "5", "6">> >>, <<USD>>)>>),
             Group(<<LambdaName>>, <<Metric(<< <<"3", "0", ".", "1">> >>, <<USD>>)>>) >>] >>

\* C7, amended: the entries getCosts returns carry the service names as the API
\* sent them (for the example: Total 150.556 *, "Amazon EC2" 120.456 USD,
\* "AWS Lambda" 30.1 USD); the names are stripped and trimmed only in the lines
\* postSlack renders (for the example "EC2" and "Lambda").
C7_Amended ==
    /\ Fetched =>
         \A k \in 1..Len(ApiGroups) :
             LET key == IF ApiGroups[k].Keys = <<>> THEN <<>> ELSE ApiGroups[k].Keys[1]
             IN  Cardinality({ i \in 2..Len(details) : details[i].key = key })
                 = Cardinality({ j \in 1..Len(ApiGroups) : RawEntry(ApiGroups[j]).key = key })
    /\ (Fetched /\ out = <<ExampleAnswer>>) =>
         details = << [key    |-> <<"T", "o", "t", "a", "l">>,
                       amount |-> Float64(FALSE, <<4719, 262, 18219, 150>>, -45),
                       unit   |-> <<"*">>],
                      [key    |-> EC2Name,
                       amount |-> Float64(FALSE, <<15991, 13631, 29884, 240>>, -46),
                       unit   |-> USD],
                      [key    |-> LambdaName,
                       amount |-> Float64(FALSE, <<6554, 13107, 26214, 240>>, -48),
                       unit   |-> USD] >>
    /\ (httpCalls # <<>> /\ out = <<ExampleAnswer>>) =>
         /\ ReportLines(httpCalls[1])[1] =
              <<"T", "o", "t", "a", "l">> \o Repeat(" ", 35) \o <<" ", ":", " ">> \o Repeat(" ", 3)
              \o <<"1", "5", "0", ".", "5", "5", "6", " ", "*">>
         /\ ReportLines(httpCalls[1])[2] =
              <<"E", "C", "2">> \o Repeat(" ", 37) \o <<" ", ":", " ">> \o Repeat(" ", 3)
              \o <<"1", "2", "0", ".", "4", "5", "6", " ">> \o USD
         /\ SubSeq(ReportLines(httpCalls[1])[3], 1, 7) = <<"L", "a", "m", "b", "d", "a", " ">>

C7_Witness ==
    /\ out = <<ExampleAnswer>>
    /\ httpCalls # <<>>
    /\ details[2].key = EC2Name

\* C8: for every day the clock may show, the requested window starts on day 1
\* of the current month and ends on day 1 of the following month (January of
\* the next year after December), so it is not empty and covers exactly one
\* calendar month.
C8_WindowIsCurrentMonth ==
    \A i \in 1..Len(window) :
        LET s == window[i].Start
            e == window[i].End
        IN  /\ IsoShape(s) /\ IsoShape(e)
            /\ NumAt(s, 1, 4) = now[1] /\ NumAt(s, 6, 7) = now[2] /\ NumAt(s, 9, 10) = 1
            /\ NumAt(e, 9, 10) = 1
            /\ IF now[2] = 12
               THEN NumAt(e, 1, 4) = now[1] + 1 /\ NumAt(e, 6, 7) = 1
               ELSE NumAt(e, 1, 4) = now[1] /\ NumAt(e, 6, 7) = now[2] + 1
            /\ 12 * NumAt(e, 1, 4) + NumAt(e, 6, 7) = 12 * NumAt(s, 1, 4) + NumAt(s, 6, 7) + 1

C8_Witness ==
    /\ now = <<2020, 12, 31>>
    /\ window = << [Start |-> <<"2", "0", "2", "0", "-", "1", "2", "-", "0", "1">>,
                    End   |-> <<"2", "0", "2", "1", "-", "0", "1", "-", "0", "1">>] >>

\* C9: the API is called at most once and the webhook is posted to at most
\* once per run; a POST is issued only after getCosts returned without error;
\* when getCosts fails, run ends at once with "failed to get cost" wrapped
\* round the error and nothing is posted.
C9_FetchFailureTerminal ==
    /\ Len(apiCalls) <= 1
    /\ Len(httpCalls) <= 1
    /\ httpCalls # <<>> => (Fetched /\ Len(apiCalls) = 1)
    /\ getErr # <<>> =>
         /\ pc = "done"
         /\ httpCalls = <<>> /\ delivered = <<>>
         /\ runErr = <<"failed to get cost">> \o getErr

C9_Witness ==
    /\ pc = "done"
    /\ Len(apiCalls) = 1
    /\ getErr = <<"failed to get cost and usage", "ThrottlingException">>
    /\ httpCalls = <<>>

\* The entries of seq whose amount is a, in their order in seq.
WithAmount(seq, a) == SelectSeq(seq, LAMBDA e : FloatEq(e.amount, a))

\* C10, as claimed: groups with equal amounts keep, in the returned list, the
\* relative order in which the API returned them.
C10_StableSort ==
    Fetched =>
        \A es \in { ApiEntries } :
            \A k \in 1..Len(es) :
                WithAmount(Tail(details), es[k].amount) = WithAmount(es, es[k].amount)

\* C10, amended: when the API returned fewer than 7 groups, groups with equal
\* amounts keep, in the returned list, the relative order in which the API
\* returned them, whatever the other amounts are (NaN included).
C10_Amended ==
    (Fetched /\ Len(ApiGroups) < 7) =>
        \A es \in { ApiEntries } :
            \A k \in 1..Len(es) :
                WithAmount(Tail(details), es[k].amount) = WithAmount(es, es[k].amount)

C10_Witness ==
    /\ Fetched
    /\ Len(ApiGroups) = 3
    /\ \A es \in { ApiEntries } :
           /\ FloatEq(es[1].amount, es[2].amount)
           /\ es[1] # es[2]
           /\ FloatGt(es[3].amount, es[1].amount)
           /\ details[2] = es[3] /\ details[3] = es[1] /\ details[4] = es[2]

====
